---------------------------- MODULE Spec2Model ----------------------------
(***************************************************************************)
(* LicenseSearchBar.js of invenio-rdm-records: a React function component  *)
(* that renders react-searchkit's SearchBar with a fixed configuration and *)
(* a placeholder translated by i18next.                                    *)
(*                                                                         *)
(* JavaScript values are modelled as tagged records, one tag per typeof:   *)
(* a string is [type |-> "string", val |-> s], null is [type |-> "null"],  *)
(* an object is [type |-> "object", val |-> f] with f a function from its  *)
(* own property names to values.                                           *)
(***************************************************************************)
EXTENDS Integers, Sequences, FiniteSets

VARIABLES
    language,   \* i18next.language: the active locale
    store,      \* i18next resource store: locale -> (key -> translation)
    earlier,    \* <<>> or <<r>>: one render that happened before `latest`
    latest      \* <<>> or <<r>>: the most recent render

vars == <<language, store, earlier, latest>>

----------------------------------------------------------------------------
(* JavaScript values *)

Str(s) == [type |-> "string", val |-> s]

Bool(b) == [type |-> "boolean", val |-> b]

Num(n) == [type |-> "number", val |-> n]

Null == [type |-> "null"]

Undefined == [type |-> "undefined"]

Obj(f) == [type |-> "object", val |-> f]

EmptyFields == [k \in {} |-> Null]

----------------------------------------------------------------------------
(* The translation catalog (i18next) *)

Locales == {"en", "fr"}

Keys == {"Search"}

Translations == {"Search", "Rechercher"}

\* the catalogs a locale can hold: any subset of the keys, each translated
Catalogs == UNION {[ks -> Translations] : ks \in SUBSET Keys}

\* i18next.t(key) with the store and language given explicitly: the
\* translation of the key in the language's catalog, the key itself when
\* the catalog has none
Translate(st, lng, key) ==
    IF key \in DOMAIN st[lng] THEN st[lng][key] ELSE key

\* i18next.t(key) as the component calls it: under the ambient state
t(key) == Translate(store, language, key)

----------------------------------------------------------------------------
(* The component *)

\* the values the component may be called with: React passes an object
\* (empty, with a field the widget does not know, or with fields named like
\* the widget's own), a direct caller may pass nothing or null
PropsSet ==
    { Undefined,
      Null,
      Obj(EmptyFields),
      Obj([foo |-> Num(1)]),
      Obj([placeholder |-> Str("Find a license")]),
      Obj([autofocus |-> Bool(FALSE),
           actionProps |-> Obj([icon |-> Str("filter"),
                                content |-> Str("Go")])]) }

\* normal completion of a function body with the value of its return
Return(v) == [completion |-> "normal", value |-> v]

\* variant: the button carries the translated label as its content
ActionPropsLabelled ==
    Obj([icon      |-> Str("search"),
         content   |-> Str(t("Search")),
         className |-> Str("search")])

\* variant: the content field is left out of the literal
ActionPropsNoContent ==
    Obj([icon      |-> Str("search"),
         className |-> Str("search")])

\* the object literal of the actionProps attribute
ActionProps ==
    Obj([icon      |-> Str("search"),
         content   |-> Null,
         className |-> Str("search")])

\* the own properties of a value as an object spread sees them: those of
\* an object, none of null or undefined
Fields(v) == IF v.type = "object" THEN v.val ELSE EmptyFields

\* { ...a, ...b }
Merge(a, b) ==
    [k \in DOMAIN a \cup DOMAIN b |-> IF k \in DOMAIN b THEN b[k] ELSE a[k]]

\* the three attributes as the source writes them
Attributes ==
    [placeholder |-> Str(t("Search")),
     autofocus   |-> Bool(TRUE),
     actionProps |-> ActionProps]

\* variant: the autofocus attribute is missing
LicenseSearchBarNoAutofocus(props) ==
    Return([type  |-> "SKSearchBar",
            props |-> [placeholder |-> Str(t("Search")),
                       actionProps |-> ActionProps]])

\* variant: the placeholder is the untranslated literal
LicenseSearchBarUntranslated(props) ==
    Return([type  |-> "SKSearchBar",
            props |-> [placeholder |-> Str("Search"),
                       autofocus   |-> Bool(TRUE),
                       actionProps |-> ActionProps]])

\* variant: <SKSearchBar placeholder=.. autofocus actionProps=.. {...props} />
LicenseSearchBarSpreadLast(props) ==
    Return([type  |-> "SKSearchBar",
            props |-> Merge(Attributes, Fields(props))])

\* variant: <SKSearchBar {...props} placeholder=.. autofocus actionProps=.. />
LicenseSearchBarSpreadFirst(props) ==
    Return([type  |-> "SKSearchBar",
            props |-> Merge(Fields(props), Attributes)])

\* variant: placeholder={props?.placeholder ?? i18next.t("Search")}
LicenseSearchBarPropsPlaceholder(props) ==
    Return([type  |-> "SKSearchBar",
            props |-> [placeholder |->
                           IF "placeholder" \in DOMAIN Fields(props)
                           THEN Fields(props)["placeholder"]
                           ELSE Str(t("Search")),
                       autofocus   |-> Bool(TRUE),
                       actionProps |-> ActionProps]])

\* variant: the body starts with `const { placeholder } = props`, which
\* throws a TypeError when props is null or undefined
LicenseSearchBarDestructuring(props) ==
    IF props.type \in {"null", "undefined"}
    THEN [completion |-> "throw", value |-> "TypeError"]
    ELSE Return([type  |-> "SKSearchBar",
                 props |-> Attributes])

\* variant: a module-level flag makes only the first render autofocus
LicenseSearchBarFocusOnce(props) ==
    Return([type  |-> "SKSearchBar",
            props |-> [placeholder |-> Str(t("Search")),
                       autofocus   |-> Bool(latest = <<>>),
                       actionProps |-> ActionProps]])

\* the call LicenseSearchBar(props): it returns the JSX element, that is
\* the element type and the props object React.createElement builds from
\* the three attributes (a bare attribute is true)
LicenseSearchBar(props) ==
    Return([type  |-> "SKSearchBar",
            props |-> [placeholder |-> Str(t("Search")),
                       autofocus   |-> Bool(TRUE),
                       actionProps |-> ActionProps]])

\* what the body touches outside its own literals, in order: the one call
\* of i18next.t; no read or write of props, no other call
LicenseSearchBarEffects ==
    << [op |-> "call", target |-> "i18next.t", arg |-> "Search"] >>

----------------------------------------------------------------------------
(* Operations *)

Init ==
    /\ language = "en"
    /\ store = [l \in Locales |->
                   IF l = "en" THEN [Search |-> "Search"]
                               ELSE [Search |-> "Rechercher"]]
    /\ earlier = <<>>
    /\ latest = <<>>

\* i18next.changeLanguage(lng)
ChangeLanguage(lng) ==
    /\ lng # language
    /\ language' = lng
    /\ UNCHANGED <<store, earlier, latest>>

\* the catalog of a locale is (re)loaded
LoadCatalog(lng, cat) ==
    /\ cat # store[lng]
    /\ store' = [store EXCEPT ![lng] = cat]
    /\ UNCHANGED <<language, earlier, latest>>

\* the record of one call of the component: what it was called with and
\* under which catalog state, how it completed, what else it did, and the
\* props value as the call left it
RenderRecord(props) ==
    [props      |-> props,
     language   |-> language,
     store      |-> store,
     result     |-> LicenseSearchBar(props),
     effects    |-> LicenseSearchBarEffects,
     propsAfter |-> props]

\* variant: the render resets the active locale to "en"
RenderForcingLocale(props, keep) ==
    /\ latest' = <<RenderRecord(props)>>
    /\ earlier' = IF keep /\ earlier # <<>> THEN earlier ELSE latest
    /\ language' = "en"
    /\ UNCHANGED store

\* a caller invokes LicenseSearchBar(props); `earlier` keeps either the
\* render it held or the one `latest` held, so that the pair ranges over
\* every two renders of a run
Render(props, keep) ==
    /\ latest' = <<RenderRecord(props)>>
    /\ earlier' = IF keep /\ earlier # <<>> THEN earlier ELSE latest
    /\ UNCHANGED <<language, store>>

Next ==
    \/ \E lng \in Locales : ChangeLanguage(lng)
    \/ \E lng \in Locales, cat \in Catalogs : LoadCatalog(lng, cat)
    \/ \E props \in PropsSet, keep \in BOOLEAN : Render(props, keep)

Spec == Init /\ [][Next]_vars

----------------------------------------------------------------------------
(* Properties *)

\* the renders on record
Recorded == {earlier[i] : i \in DOMAIN earlier} \cup
            {latest[i] : i \in DOMAIN latest}

\* the props object of the element a render returned: the configuration
\* handed to the search-bar widget
Config(r) == r.result.value.props

\* the property read o[k] of JavaScript: undefined when o has no such field
Get(o, k) == IF k \in DOMAIN o THEN o[k] ELSE Undefined

\* the names of the widget's configuration fields
ConfigKeys == {"placeholder", "autofocus", "actionProps"}

\* a step that records a render
IsRenderStep == <<earlier, latest>>' # <<earlier, latest>>

\* C1: every render, whatever the props and the catalog state, hands the
\* widget autofocus = true, actionProps.icon = "search",
\* actionProps.className = "search" and actionProps.content = null.
C1_FixedConfiguration ==
    \A r \in Recorded :
        /\ Get(Config(r), "autofocus") = Bool(TRUE)
        /\ Get(Config(r), "actionProps").type = "object"
        /\ Get(Get(Config(r), "actionProps").val, "icon") = Str("search")
        /\ Get(Get(Config(r), "actionProps").val, "className") = Str("search")
        /\ Get(Get(Config(r), "actionProps").val, "content") = Null

\* a render with props that name autofocus and actionProps themselves,
\* under a catalog without the key, after an earlier render
C1_Witness ==
    /\ earlier # <<>>
    /\ latest # <<>>
    /\ latest[1].props \in PropsSet
    /\ latest[1].props.type = "object"
    /\ "autofocus" \in DOMAIN latest[1].props.val
    /\ "Search" \notin DOMAIN latest[1].store[latest[1].language]
    /\ Config(latest[1]).autofocus = Bool(TRUE)
    /\ Config(latest[1]).actionProps.val.content = Null

\* C2: the placeholder of every render is the translation of the literal
\* key "Search" under the locale and catalog of that render: "Search"
\* under an en catalog mapping it to "Search", "Rechercher" under a fr
\* catalog mapping it to "Rechercher".
C2_PlaceholderIsTranslation ==
    \A r \in Recorded :
        /\ Get(Config(r), "placeholder") =
               Str(Translate(r.store, r.language, "Search"))
        /\ (r.language = "en" /\ r.store["en"] = [Search |-> "Search"])
               => Get(Config(r), "placeholder") = Str("Search")
        /\ (r.language = "fr" /\ r.store["fr"] = [Search |-> "Rechercher"])
               => Get(Config(r), "placeholder") = Str("Rechercher")

\* a render under fr showing "Rechercher" after one under en showing
\* "Search"
C2_Witness ==
    /\ earlier # <<>>
    /\ latest # <<>>
    /\ earlier[1].language = "en"
    /\ Config(earlier[1]).placeholder = Str("Search")
    /\ latest[1].language = "fr"
    /\ latest[1].store["fr"] = [Search |-> "Rechercher"]
    /\ Config(latest[1]).placeholder = Str("Rechercher")

\* the configuration of a render without its placeholder
WithoutPlaceholder(r) ==
    [k \in DOMAIN Config(r) \ {"placeholder"} |-> Config(r)[k]]

\* C3: two renders under different active locales differ at most in the
\* placeholder: the element type, autofocus and every field of actionProps
\* are the same.
C3_LocaleChangesOnlyPlaceholder ==
    \A r1, r2 \in Recorded :
        r1.language # r2.language =>
            /\ r1.result.completion = r2.result.completion
            /\ r1.result.value.type = r2.result.value.type
            /\ WithoutPlaceholder(r1) = WithoutPlaceholder(r2)
            /\ Get(Config(r1), "autofocus") = Get(Config(r2), "autofocus")
            /\ Get(Config(r1), "actionProps") = Get(Config(r2), "actionProps")

\* two renders under different locales whose placeholders differ
C3_Witness ==
    /\ earlier # <<>>
    /\ latest # <<>>
    /\ earlier[1].language # latest[1].language
    /\ Config(earlier[1]).placeholder # Config(latest[1]).placeholder
    /\ Config(earlier[1]).actionProps = Config(latest[1]).actionProps

\* C4: under one catalog state the props do not influence the output: any
\* two props values give the same result, for the renders on record and
\* for the render a caller could make now.
C4_PropsDoNotInfluence ==
    /\ \A p1, p2 \in PropsSet : LicenseSearchBar(p1) = LicenseSearchBar(p2)
    /\ \A r1, r2 \in Recorded :
           (r1.props # r2.props /\ r1.language = r2.language
                /\ r1.store = r2.store)
               => r1.result = r2.result

\* a render with {} and a render with { foo: 1 } under the same catalog
\* state, with the same result
C4_Witness ==
    /\ earlier # <<>>
    /\ latest # <<>>
    /\ earlier[1].props = Obj(EmptyFields)
    /\ latest[1].props = Obj([foo |-> Num(1)])
    /\ earlier[1].language = latest[1].language
    /\ earlier[1].store = latest[1].store
    /\ earlier[1].result = latest[1].result

\* C5: two renders under the same active locale and the same catalog give
\* the same output.
C5_Deterministic ==
    \A r1, r2 \in Recorded :
        (r1.language = r2.language /\ r1.store = r2.store)
            => r1.result = r2.result

\* the same call made twice under fr and the same catalog, with the same
\* output
C5_Witness ==
    /\ earlier # <<>>
    /\ latest # <<>>
    /\ earlier[1].language = "fr"
    /\ latest[1].language = "fr"
    /\ earlier[1].store = latest[1].store
    /\ earlier[1].props = latest[1].props
    /\ earlier[1].result = latest[1].result
    /\ Config(latest[1]).placeholder = Str("Rechercher")

\* C6: no render fails: for every props value, null and undefined
\* included, the call completes normally with a search-bar element, and
\* nothing it does reads a field of props.
C6_NeverFails ==
    \A r \in Recorded :
        /\ r.result.completion = "normal"
        /\ r.result.value.type = "SKSearchBar"
        /\ DOMAIN r.result.value.props # {}
        /\ \A i \in DOMAIN r.effects : r.effects[i].target # "props"

\* a render called with undefined after one called with null, both
\* completed normally
C6_Witness ==
    /\ earlier # <<>>
    /\ latest # <<>>
    /\ earlier[1].props = Null
    /\ latest[1].props = Undefined
    /\ earlier[1].result.completion = "normal"
    /\ latest[1].result.completion = "normal"

\* C7 as stated: the props object is forwarded to the widget, so every
\* field of the props reaches the widget's configuration.
C7_PropsForwarded ==
    \A r \in Recorded :
        r.props.type = "object" =>
            \A k \in DOMAIN r.props.val :
                k \notin ConfigKeys => Get(Config(r), k) = r.props.val[k]

\* C7 amended: the props object is accepted but nothing of it is handed to
\* the widget: a props field the widget configuration does not name is
\* absent from it, and a props field named like a configuration field
\* leaves that field at its fixed value.
C7_PropsNotForwarded ==
    \A r \in Recorded :
        r.props.type = "object" =>
            \A k \in DOMAIN r.props.val :
                /\ k \notin ConfigKeys => k \notin DOMAIN Config(r)
                /\ k = "placeholder" =>
                       Get(Config(r), k) =
                           Str(Translate(r.store, r.language, "Search"))
                /\ k = "autofocus" => Get(Config(r), k) = Bool(TRUE)
                /\ k = "actionProps" =>
                       Get(Config(r), k) =
                           Obj([icon |-> Str("search"), content |-> Null,
                                className |-> Str("search")])

\* a render with { foo: 1 } whose configuration has no foo, after one with
\* { placeholder: .. } whose placeholder is the translation
C7_Witness ==
    /\ earlier # <<>>
    /\ latest # <<>>
    /\ earlier[1].props = Obj([placeholder |-> Str("Find a license")])
    /\ Config(earlier[1]).placeholder # Str("Find a license")
    /\ latest[1].props = Obj([foo |-> Num(1)])
    /\ "foo" \notin DOMAIN Config(latest[1])

\* C8: a render step leaves the active locale and the catalog unchanged,
\* leaves the props value as it was passed, and does nothing but the one
\* translation lookup of "Search": no write, no request, no spawned work.
C8_NoSideEffect ==
    [][IsRenderStep =>
          /\ language' = language
          /\ store' = store
          /\ latest'[1].propsAfter = latest'[1].props
          /\ latest'[1].effects =
                 << [op |-> "call", target |-> "i18next.t",
                     arg |-> "Search"] >>]_vars

\* a render under fr with an object props, recorded with the locale still
\* fr
C8_Witness ==
    /\ latest # <<>>
    /\ latest[1].language = "fr"
    /\ language = "fr"
    /\ store = latest[1].store
    /\ latest[1].props = Obj([placeholder |-> Str("Find a license")])
    /\ latest[1].propsAfter = latest[1].props
    /\ Len(latest[1].effects) = 1

\* C9: the component keeps no state: after every step, a render made now
\* with any props gives what every render on record under the same locale
\* and catalog gave, whatever happened in between; and a render on record
\* is never changed.
C9_Stateless ==
    [][/\ \A i \in DOMAIN earlier' :
              earlier'[i] \in Recorded
       /\ \A i \in DOMAIN latest' :
              \A p \in PropsSet :
                  (latest'[i].language = language' /\ latest'[i].store = store')
                      => LicenseSearchBar(p)' = latest'[i].result
       /\ \A i \in DOMAIN earlier' :
              \A p \in PropsSet :
                  (earlier'[i].language = language'
                       /\ earlier'[i].store = store')
                      => LicenseSearchBar(p)' = earlier'[i].result]_vars

\* the locale is back at that of an earlier render after a render under
\* another locale and with other props
C9_Witness ==
    /\ earlier # <<>>
    /\ latest # <<>>
    /\ earlier[1].language = language
    /\ earlier[1].store = store
    /\ latest[1].language # language
    /\ latest[1].props # earlier[1].props
    /\ LicenseSearchBar(Undefined) = earlier[1].result

\* C10: the configuration has exactly the fields placeholder, autofocus
\* and actionProps, and actionProps exactly icon, content and className.
C10_ExactFields ==
    \A r \in Recorded :
        /\ DOMAIN Config(r) = {"placeholder", "autofocus", "actionProps"}
        /\ Config(r).actionProps.type = "object"
        /\ DOMAIN Config(r).actionProps.val = {"icon", "content", "className"}

\* a render with props carrying a foreign field and one carrying an
\* actionProps of two fields, both with the three configuration fields
C10_Witness ==
    /\ earlier # <<>>
    /\ latest # <<>>
    /\ earlier[1].props = Obj([foo |-> Num(1)])
    /\ "actionProps" \in DOMAIN Fields(latest[1].props)
    /\ Cardinality(DOMAIN Config(earlier[1])) = 3
    /\ Cardinality(DOMAIN Config(latest[1]).actionProps.val) = 3

=============================================================================
